---- MODULE Spec2Model ----
(***************************************************************************)
(* FloatingBackground (crates/eww/src/widgets/floating_background.rs):     *)
(* a single-child GTK container whose background animates between a        *)
(* docked and a floating look.                                             *)
(*                                                                         *)
(* The widget computes with f64.  The termination test of the stepper      *)
(* (progress >= 1 after repeated progress += 0.1) depends on the last bit  *)
(* of the accumulated value, so f64 is modelled bit-exactly: a value is    *)
(* s * m * 2^e with a 53-bit significand m, and every operation rounds     *)
(* its exact result to nearest, ties to even, as IEEE 754 binary64 does.   *)
(* Subnormals, infinities and NaN are not modelled: every value the widget *)
(* computes from its bounded properties lies between 2^-200 and 2^10.      *)
(***************************************************************************)
EXTENDS Integers, Sequences, FiniteSets, TLC

(***************************************************************************)
(* Natural numbers of any size: little-endian sequences of 15-bit limbs,   *)
(* without high zero limbs (TLC's integers are 32 bits wide, a binary64    *)
(* significand is 53 and a product of two is 106).                         *)
(***************************************************************************)
LimbBits == 15 + 0
LimbBase == 2^LimbBits

RECURSIVE BTrim(_)
BTrim(a) ==
  IF a = <<>> THEN a
  ELSE IF a[Len(a)] = 0 THEN BTrim(SubSeq(a, 1, Len(a) - 1)) ELSE a

RECURSIVE BFromInt(_)
BFromInt(n) == IF n = 0 THEN <<>> ELSE <<n % LimbBase>> \o BFromInt(n \div LimbBase)

RECURSIVE BToInt(_)
BToInt(a) == IF a = <<>> THEN 0 ELSE Head(a) + LimbBase * BToInt(Tail(a))

BHead(a) == IF a = <<>> THEN 0 ELSE Head(a)
BTail(a) == IF a = <<>> THEN a ELSE Tail(a)

RECURSIVE BAddC(_, _, _)
BAddC(a, b, c) ==
  IF a = <<>> /\ b = <<>> THEN (IF c = 0 THEN <<>> ELSE <<c>>)
  ELSE LET s == BHead(a) + BHead(b) + c
       IN  <<s % LimbBase>> \o BAddC(BTail(a), BTail(b), s \div LimbBase)

BAdd(a, b) == BAddC(a, b, 0)

\* a - b for a >= b
RECURSIVE BSubC(_, _, _)
BSubC(a, b, c) ==
  IF a = <<>> THEN <<>>
  ELSE LET d == Head(a) - BHead(b) - c
       IN  IF d < 0 THEN <<d + LimbBase>> \o BSubC(Tail(a), BTail(b), 1)
           ELSE <<d>> \o BSubC(Tail(a), BTail(b), 0)

BSub(a, b) == BTrim(BSubC(a, b, 0))

\* -1, 0, 1 as a < b, a = b, a > b
RECURSIVE BCmpTop(_, _, _)
BCmpTop(a, b, i) ==
  IF i = 0 THEN 0
  ELSE IF a[i] < b[i] THEN -1
  ELSE IF a[i] > b[i] THEN 1
  ELSE BCmpTop(a, b, i - 1)

BCmp(a, b) ==
  IF Len(a) < Len(b) THEN -1
  ELSE IF Len(a) > Len(b) THEN 1
  ELSE BCmpTop(a, b, Len(a))

\* a * k + c for 0 <= k, c < LimbBase
RECURSIVE BMulSmallC(_, _, _)
BMulSmallC(a, k, c) ==
  IF a = <<>> THEN (IF c = 0 THEN <<>> ELSE <<c>>)
  ELSE LET p == Head(a) * k + c
       IN  <<p % LimbBase>> \o BMulSmallC(Tail(a), k, p \div LimbBase)

BMulSmall(a, k) == BTrim(BMulSmallC(a, k, 0))

RECURSIVE BMulRec(_, _)
BMulRec(a, b) ==
  IF b = <<>> THEN <<>>
  ELSE BAdd(BMulSmallC(a, Head(b), 0), <<0>> \o BMulRec(a, Tail(b)))

BMul(a, b) == BTrim(BMulRec(a, b))

\* quotient and remainder of a by k, 0 < k <= LimbBase
RECURSIVE BDivSmallRec(_, _)
BDivSmallRec(a, k) ==
  IF a = <<>> THEN [q |-> <<>>, r |-> 0]
  ELSE LET hi  == BDivSmallRec(Tail(a), k)
           cur == hi.r * LimbBase + Head(a)
       IN  [q |-> <<cur \div k>> \o hi.q, r |-> cur % k]

BDivSmallTrim(d) == [q |-> BTrim(d.q), r |-> d.r]

BDivSmall(a, k) == BDivSmallTrim(BDivSmallRec(a, k))

Zeros(n) == [i \in 1..n |-> 0]

\* a * 2^n
BShl(a, n) ==
  IF a = <<>> THEN a
  ELSE Zeros(n \div LimbBits) \o BMulSmall(a, 2^(n % LimbBits))

\* floor(a / 2^n)
BShr(a, n) ==
  IF Len(a) <= n \div LimbBits THEN <<>>
  ELSE BDivSmall(SubSeq(a, (n \div LimbBits) + 1, Len(a)), 2^(n % LimbBits)).q

RECURSIVE IntBitLen(_)
IntBitLen(n) == IF n = 0 THEN 0 ELSE 1 + IntBitLen(n \div 2)

BBitLen(a) == IF a = <<>> THEN 0 ELSE LimbBits * (Len(a) - 1) + IntBitLen(a[Len(a)])

BOdd(a) == a # <<>> /\ Head(a) % 2 = 1

(***************************************************************************)
(* binary64                                                                *)
(***************************************************************************)
SigBits == 53 + 0

FZero == [s |-> 1, m |-> <<>>, e |-> 0]

\* the rounded significand q2 of d dropped bits: a carry out of the 53 bits
\* drops one more
FRoundCarry(s, q2, e, d) ==
  IF BBitLen(q2) > SigBits
  THEN [s |-> s, m |-> BShr(q2, 1), e |-> e + d + 1]
  ELSE [s |-> s, m |-> q2, e |-> e + d]

\* c compares the dropped bits with half a unit of q: to nearest, ties to even
FRoundTie(s, q, c, e, d) ==
  FRoundCarry(s, IF c = 1 \/ (c = 0 /\ BOdd(q)) THEN BAdd(q, <<1>>) ELSE q, e, d)

\* q is M without its d low bits
FRoundDrop(s, M, q, e, d) ==
  FRoundTie(s, q, BCmp(BSub(M, BShl(q, d)), BShl(<<1>>, d - 1)), e, d)

\* M # 0 has L bits
FRoundLen(s, M, e, L) ==
  IF L <= SigBits THEN [s |-> s, m |-> BShl(M, SigBits - L), e |-> e - (SigBits - L)]
  ELSE FRoundDrop(s, M, BShr(M, L - SigBits), e, L - SigBits)

\* s * M * 2^e rounded to a 53-bit significand, to nearest, ties to even
FRound(s, M, e) == IF M = <<>> THEN FZero ELSE FRoundLen(s, M, e, BBitLen(M))

\* the f64 of an integer (`7f64`, `win.width() as f64`)
FInt(n) == IF n < 0 THEN FRound(-1, BFromInt(-n), 0) ELSE FRound(1, BFromInt(n), 0)

\* qr: quotient and remainder of n * 2^k by d; the remainder is a sticky bit
FRatioSticky(qr, k) ==
  FRound(1, BAdd(BShl(qr.q, 1), IF qr.r = 0 THEN <<>> ELSE <<1>>), -(k + 1))

FRatioScaled(n, d, k) == FRatioSticky(BDivSmall(BShl(BFromInt(n), k), d), k)

\* the f64 nearest to n/d, 0 <= n, 0 < d < LimbBase: a decimal literal such as 0.1
FRatio(n, d) == FRatioScaled(n, d, 4 * LimbBits + IntBitLen(d))

FNeg(x) == IF x.m = <<>> THEN x ELSE [x EXCEPT !.s = -x.s]

\* sx * mx + sy * my of opposite signs, c comparing mx with my
FAddOpposite(sx, mx, sy, my, e, c) ==
  FRound(IF c = 1 THEN sx ELSE sy, IF c = 1 THEN BSub(mx, my) ELSE BSub(my, mx), e)

\* (sx * mx + sy * my) * 2^e
FAddAligned(sx, mx, sy, my, e) ==
  IF sx = sy THEN FRound(sx, BAdd(mx, my), e)
  ELSE FAddOpposite(sx, mx, sy, my, e, BCmp(mx, my))

\* x + y, neither zero, e the smaller exponent
FAddAt(x, y, e) == FAddAligned(x.s, BShl(x.m, x.e - e), y.s, BShl(y.m, y.e - e), e)

FAdd(x, y) ==
  IF x.m = <<>> THEN y
  ELSE IF y.m = <<>> THEN x
  ELSE FAddAt(x, y, IF x.e < y.e THEN x.e ELSE y.e)

FSub(x, y) == FAdd(x, FNeg(y))

FMul(x, y) ==
  IF x.m = <<>> \/ y.m = <<>> THEN FZero
  ELSE FRound(x.s * y.s, BMul(x.m, y.m), x.e + y.e)

\* x < 0, x = 0, x > 0 as -1, 0, 1
FSign(x) == IF x.m = <<>> THEN 0 ELSE x.s

FGe(x, y) == FSign(FSub(x, y)) >= 0
FLe(x, y) == FGe(y, x)
FLt(x, y) == ~FGe(x, y)

\* `x as i32`: truncation toward zero (saturating outside i32)
FToI32(x) ==
  IF x.m = <<>> THEN 0
  ELSE IF SigBits + x.e > 31 THEN (IF x.s = 1 THEN 2147483647 ELSE -2147483647 - 1)
  ELSE IF x.e >= 0 THEN x.s * BToInt(BShl(x.m, x.e))
  ELSE x.s * BToInt(BShr(x.m, -x.e))

(***************************************************************************)
(* The widget and the parts of its host (GTK, GLib, cairo) it touches      *)
(***************************************************************************)
None == "None"

\* the widgets the host may hand to `add`
Widgets == {"A", "B"}

\* the values the host writes to the three f64 properties (within their
\* declared minimum and maximum)
MaxMarginValues == {FInt(7), FInt(0)}
MaxRadiusValues == {FInt(5), FInt(0)}
FloatingOpacityValues == {FRatio(8, 10), FRatio(1, 2)}

\* gdk::RGBA::WHITE
WHITE == [red |-> FInt(1), green |-> FInt(1), blue |-> FInt(1), alpha |-> FInt(1)]

\* the style contexts the theme may resolve to: no background-color at all,
\* or a half-transparent red with some padding
\* (bg: the resolved background-color, if the lookup yields one)
Styles ==
  { [bg |-> {}, left |-> 0, top |-> 0],
    [bg |-> {[red |-> FInt(1), green |-> FInt(0), blue |-> FInt(0), alpha |-> FRatio(1, 2)]},
     left |-> 2, top |-> 3] }

\* the sizes of the widget's window
Viewports == {<<40, 30>>, <<16, 16>>}

\* the fallible cairo calls of one draw, in call order: save, fill, restore,
\* and with a child save, restore; 0 = the context reports no error
CairoFailures == 0..5

\* bounds of the model
MaxCalls == 3         \* writes of `floating`
MaxTransitions == 2   \* of them, writes that may start an overlapping stepper
MaxWrites == 1        \* writes of the other properties and style changes

VARIABLES
  floating,          \* FloatingBackgroundPriv.floating
  max_margin,        \* FloatingBackgroundPriv.max_margin
  max_radius,        \* FloatingBackgroundPriv.max_radius
  floating_opacity,  \* FloatingBackgroundPriv.floating_opacity
  state,             \* FloatingBackgroundPriv.state: margin, radius, color
  content,           \* FloatingBackgroundPriv.content
  timeouts,          \* the closures registered with glib::timeout_add_local
                     \* and not yet ended, in the order they were attached
  draw_queued,       \* a redraw requested by queue_draw and not yet served
  style,             \* the widget's style context (ambient)
  bin_child,         \* the child held by the parent class gtk::Bin
  child_margins,     \* margin-top/-start/-end/-bottom of each child widget
  diag,              \* what the latest call reported through print_error
  canvas,            \* what the latest call drew, if it was a draw
  calls,             \* number of writes of `floating` so far
  flips,             \* of them, the writes whose value differed from the flag
  starts,            \* number of timeout_add_local calls so far
  overlapped,        \* the latest transition started while a stepper ran
  at_start,          \* properties and style colour when it started
  writes,            \* number of property writes and style changes so far
  sym,               \* observer of a floating -> docked -> floating round trip
  outdated,          \* the latest call ran a closure whose snapshot of the
                     \* three properties differs from what they hold now
  eased,             \* one call of the closure `easing`: its arguments and,
                     \* once it has returned, its result
  unpainted          \* `state` was written after draw last read it

widget_vars == <<floating, max_margin, max_radius, floating_opacity, state, content>>
host_vars == <<timeouts, draw_queued, style, bin_child, child_margins>>
obs_vars ==
  <<diag, canvas, calls, flips, starts, overlapped, at_start, writes, sym, outdated,
    eased, unpainted>>
vars == <<widget_vars, host_vars, obs_vars>>

NoCanvas == [painted |-> FALSE]

\* the f64 literals of the widget: 0f64, 1f64, 0.1
Zero == FInt(0)
One == FInt(1)
Tenth == FRatio(1, 10)

\* styles.style_property_for_state("background-color", NORMAL).get().unwrap_or(WHITE)
BgColor == IF style.bg = {} THEN WHITE ELSE CHOOSE c \in style.bg : TRUE

\* the three f64 properties and the style colour, as a transition captures them
Captured ==
  [max_margin |-> max_margin, max_radius |-> max_radius,
   floating_opacity |-> floating_opacity, bg_color |-> BgColor]

\* impl Default for FloatingBackgroundPriv, and the observers at their start
Default ==
  /\ floating = FALSE
  /\ max_margin = FInt(7)
  /\ max_radius = FInt(5)
  /\ floating_opacity = FRatio(8, 10)
  /\ state = [margin |-> FInt(0), radius |-> FInt(0), color |-> WHITE]
  /\ content = None
  /\ timeouts = <<>>
  /\ draw_queued = FALSE
  /\ style \in {s \in Styles : s.bg = {}}
  /\ bin_child = None
  /\ child_margins = [w \in Widgets |-> [top |-> 0, start |-> 0, end |-> 0, bottom |-> 0]]
  /\ diag = <<>>
  /\ canvas = NoCanvas
  /\ calls = 0
  /\ flips = 0
  /\ starts = 0
  /\ overlapped = FALSE
  /\ at_start = [max_margin |-> FInt(7), max_radius |-> FInt(5),
                 floating_opacity |-> FRatio(8, 10), bg_color |-> WHITE]
  /\ writes = 0
  /\ sym = [phase |-> 0]
  /\ outdated = FALSE
  /\ unpainted = FALSE

\* no call of `easing` is being looked at
NoEasing == [called |-> FALSE, returned |-> FALSE]

\* the widget after construction
Init == Default /\ eased = NoEasing

\* the closure `easing`
Easing(progress, min, max) == FAdd(FMul(FMul(progress, progress), FSub(max, min)), min)

(***************************************************************************)
(* The timeout closure computes with a handful of values.  Its arithmetic  *)
(* is tabulated over them once, so that exploring a state looks a result   *)
(* up instead of redoing the multi-limb arithmetic: `progress` takes the   *)
(* values 0, 0 + 0.1, (0 + 0.1) + 0.1, ...; min and max are what the       *)
(* properties and the style can hold.                                      *)
(***************************************************************************)
RECURSIVE Accumulated(_, _)
Accumulated(p, n) == IF n = 0 THEN {p} ELSE {p} \cup Accumulated(FAdd(p, Tenth), n - 1)

\* more values than any closure reaches before it breaks
ProgressValues == Accumulated(Zero, 3 * 4)

ProgValues == ProgressValues \cup {FSub(One, p) : p \in ProgressValues}

AlphaValues == {WHITE.alpha} \cup UNION {{c.alpha : c \in s.bg} : s \in Styles}

EasingAt ==
  [prog \in ProgValues, min \in {Zero} \cup AlphaValues,
   max \in MaxMarginValues \cup MaxRadiusValues \cup FloatingOpacityValues
     |-> Easing(prog, min, max)]

\* `progress += 0.1`
StepperProgress(progress) == FAdd(progress, Tenth)

ProgressAt == [p \in ProgressValues |-> StepperProgress(p)]

\* `progress` after n runs of the closure
RECURSIVE NthProgress(_)
NthProgress(n) == IF n = 0 THEN Zero ELSE StepperProgress(NthProgress(n - 1))

\* how many times a closure whose `progress` is p has run
RunsAt == [p \in ProgressValues |-> CHOOSE n \in 0..(3 * 4) : NthProgress(n) = p]

\* `let prog = if !value { 1f64 - progress } else { progress }`
StepperProg(value, progress) == IF ~value THEN FSub(One, progress) ELSE progress

ProgAt == [value \in BOOLEAN, p \in ProgressValues |-> StepperProg(value, p)]

\* `progress >= 1f64`
StepperBreaks(progress) == FGe(progress, One)

BreaksAt == [p \in ProgressValues |-> StepperBreaks(p)]

\* a closure with `state.margin += ...` in place of `state.margin = ...`
MutStepperWriteAccumulates(t, st) ==
  LET prog == ProgAt[t.value, ProgressAt[t.progress]] IN
  [margin |-> FAdd(st.margin, EasingAt[prog, Zero, t.max_margin]),
   radius |-> EasingAt[prog, Zero, t.max_radius],
   color  |-> [st.color EXCEPT !.alpha = EasingAt[prog, t.bg_color.alpha, t.floating_opacity]]]

\* a closure that reads the three properties when it runs instead of using
\* the copies made when the transition started
MutStepperWriteLive(t, st) ==
  LET prog == ProgAt[t.value, ProgressAt[t.progress]] IN
  [margin |-> EasingAt[prog, Zero, max_margin],
   radius |-> EasingAt[prog, Zero, max_radius],
   color  |-> [st.color EXCEPT !.alpha = EasingAt[prog, t.bg_color.alpha, floating_opacity]]]

\* the three assignments to `state` of one run of the closure t
StepperAssign(t, st, prog) ==
  [margin |-> EasingAt[prog, Zero, t.max_margin],
   radius |-> EasingAt[prog, Zero, t.max_radius],
   color  |-> [st.color EXCEPT !.alpha = EasingAt[prog, t.bg_color.alpha, t.floating_opacity]]]

\* one run of the closure t up to `widget.queue_draw()`: progress, prog and
\* the assignments
StepperWrite(t, st) == StepperAssign(t, st, ProgAt[t.value, ProgressAt[t.progress]])

RemoveAt(s, i) == SubSeq(s, 1, i - 1) \o SubSeq(s, i + 1, Len(s))

\* transition without its `if *self.floating.borrow() == value { return; }`
MutTransitionAlways(value) ==
  /\ floating' = value
  /\ state' = [state EXCEPT !.color = BgColor]
  /\ timeouts' = Append(timeouts,
       [id |-> starts + 1, value |-> value, bg_color |-> BgColor,
        max_margin |-> max_margin, max_radius |-> max_radius,
        floating_opacity |-> floating_opacity, progress |-> Zero])
  /\ starts' = starts + 1
  /\ overlapped' = (timeouts # <<>>)
  /\ at_start' = Captured

\* FloatingBackgroundPriv::transition
Transition(value) ==
  IF floating = value
  THEN UNCHANGED <<floating, state, timeouts, starts, overlapped, at_start>>
  ELSE /\ floating' = value
       /\ state' = [state EXCEPT !.color = BgColor]
       /\ timeouts' = Append(timeouts,
            [id |-> starts + 1, value |-> value, bg_color |-> BgColor,
             max_margin |-> max_margin, max_radius |-> max_radius,
             floating_opacity |-> floating_opacity, progress |-> Zero])
       /\ starts' = starts + 1
       /\ overlapped' = (timeouts # <<>>)
       /\ at_start' = Captured

\* what the round-trip observer notes when `floating` is written: the state
\* at a write of false made at rest (phase 1), and the write of true that
\* follows once the widget is at rest again (phase 2)
SymOnFloating(value) ==
  IF value = floating THEN sym
  ELSE IF ~value /\ timeouts = <<>>
       THEN [phase |-> 1, origin |-> state, now |-> Captured,
             clean |-> ~overlapped /\ at_start = Captured]
  ELSE IF value /\ timeouts = <<>> /\ sym.phase = 1 THEN [sym EXCEPT !.phase = 2]
  ELSE [phase |-> 0]

\* ObjectImpl::set_property, "floating"
WriteFloating(value) ==
  /\ Transition(value)
  /\ calls' = calls + 1
  /\ flips' = IF value # floating THEN flips + 1 ELSE flips
  /\ sym' = SymOnFloating(value)
  /\ diag' = <<>>
  /\ canvas' = NoCanvas
  /\ outdated' = FALSE
  /\ eased' = eased
  /\ unpainted' = (unpainted \/ value # floating)
  /\ UNCHANGED <<max_margin, max_radius, floating_opacity, content>>
  /\ UNCHANGED <<draw_queued, style, bin_child, child_margins, writes>>

\* the host writes `floating` at any time
SetFloating(value) ==
  /\ calls < MaxCalls
  /\ starts < MaxTransitions
  /\ WriteFloating(value)

\* the host writes `floating` only while no stepper runs
SetFloatingAtRest(value) ==
  /\ calls < MaxCalls
  /\ timeouts = <<>>
  /\ WriteFloating(value)

\* ObjectImpl::set_property, "max-margin" | "max-radius" | "floating-opacity"
SetProperty(name, value) ==
  /\ writes < MaxWrites
  /\ writes' = writes + 1
  /\ max_margin' = IF name = "max-margin" THEN value ELSE max_margin
  /\ max_radius' = IF name = "max-radius" THEN value ELSE max_radius
  /\ floating_opacity' = IF name = "floating-opacity" THEN value ELSE floating_opacity
  /\ UNCHANGED <<floating, state, content, host_vars>>
  /\ UNCHANGED <<calls, flips, starts, overlapped, at_start>>
  /\ sym' = IF sym.phase > 0 /\ Captured' # sym.now THEN [phase |-> 0] ELSE sym
  /\ diag' = <<>>
  /\ canvas' = NoCanvas
  /\ outdated' = FALSE
  /\ UNCHANGED <<eased, unpainted>>

SetMaxMargin == \E v \in MaxMarginValues : SetProperty("max-margin", v)
SetMaxRadius == \E v \in MaxRadiusValues : SetProperty("max-radius", v)
SetFloatingOpacity == \E v \in FloatingOpacityValues : SetProperty("floating-opacity", v)

\* the theme changes the widget's style; GTK redraws a restyled widget
SetStyle(s) ==
  /\ writes < MaxWrites
  /\ s # style
  /\ writes' = writes + 1
  /\ style' = s
  /\ draw_queued' = TRUE
  /\ UNCHANGED <<widget_vars, timeouts, bin_child, child_margins>>
  /\ UNCHANGED <<calls, flips, starts, overlapped, at_start>>
  /\ sym' = IF sym.phase > 0 /\ Captured' # sym.now THEN [phase |-> 0] ELSE sym
  /\ diag' = <<>>
  /\ canvas' = NoCanvas
  /\ outdated' = FALSE
  /\ UNCHANGED <<eased, unpainted>>

\* a closure without its `widget.queue_draw()`
MutTickNoQueueDraw(i) ==
  /\ i \in 1..Len(timeouts)
  /\ state' = StepperWrite(timeouts[i], state)
  /\ draw_queued' = draw_queued
  /\ timeouts' = IF BreaksAt[ProgressAt[timeouts[i].progress]]
                 THEN RemoveAt(timeouts, i)
                 ELSE [timeouts EXCEPT ![i].progress = ProgressAt[timeouts[i].progress]]
  /\ diag' = <<>>
  /\ canvas' = NoCanvas
  /\ outdated' = (\/ timeouts[i].max_margin # max_margin
                  \/ timeouts[i].max_radius # max_radius
                  \/ timeouts[i].floating_opacity # floating_opacity)
  /\ unpainted' = TRUE
  /\ UNCHANGED <<floating, max_margin, max_radius, floating_opacity, content>>
  /\ UNCHANGED <<style, bin_child, child_margins>>
  /\ UNCHANGED <<calls, flips, starts, overlapped, at_start, writes, sym, eased>>

\* one run of the closure given to glib::timeout_add_local, for the i-th
\* registered source
Tick(i) ==
  /\ i \in 1..Len(timeouts)
  /\ state' = StepperWrite(timeouts[i], state)
  /\ draw_queued' = TRUE
  /\ timeouts' = IF BreaksAt[ProgressAt[timeouts[i].progress]]
                 THEN RemoveAt(timeouts, i)
                 ELSE [timeouts EXCEPT ![i].progress = ProgressAt[timeouts[i].progress]]
  /\ diag' = <<>>
  /\ canvas' = NoCanvas
  /\ outdated' = (\/ timeouts[i].max_margin # max_margin
                  \/ timeouts[i].max_radius # max_radius
                  \/ timeouts[i].floating_opacity # floating_opacity)
  /\ UNCHANGED <<floating, max_margin, max_radius, floating_opacity, content>>
  /\ unpainted' = TRUE
  /\ UNCHANGED <<style, bin_child, child_margins>>
  /\ UNCHANGED <<calls, flips, starts, overlapped, at_start, writes, sym, eased>>

(***************************************************************************)
(* The child slot                                                          *)
(***************************************************************************)
\* gtk::Bin's remove (parent_remove): it lets go of the widget it holds and
\* ignores any other
ParentRemove(held, widget) == IF held = widget THEN None ELSE held

\* gtk::Bin's add (parent_add): it takes a widget only while it holds none
ParentAdd(held, widget) == IF held = None THEN widget ELSE held

\* add without its `self.parent_remove(content)`
MutAddNoRemove(widget) ==
  /\ widget # bin_child
  /\ diag' = IF content # None THEN <<"multiple children">> ELSE <<>>
  /\ bin_child' = ParentAdd(bin_child, widget)
  /\ content' = widget
  /\ canvas' = NoCanvas
  /\ outdated' = FALSE
  /\ UNCHANGED <<eased, unpainted>>
  /\ UNCHANGED <<floating, max_margin, max_radius, floating_opacity, state>>
  /\ UNCHANGED <<timeouts, draw_queued, style, child_margins>>
  /\ UNCHANGED <<calls, flips, starts, overlapped, at_start, writes, sym>>

\* ContainerImpl::add; gtk_container_add hands over only a widget that has
\* no parent
Add(widget) ==
  /\ widget # bin_child
  /\ diag' = IF content # None THEN <<"multiple children">> ELSE <<>>
  /\ bin_child' = ParentAdd(IF content # None THEN ParentRemove(bin_child, content)
                            ELSE bin_child, widget)
  /\ content' = widget
  /\ canvas' = NoCanvas
  /\ outdated' = FALSE
  /\ UNCHANGED <<eased, unpainted>>
  /\ UNCHANGED <<floating, max_margin, max_radius, floating_opacity, state>>
  /\ UNCHANGED <<timeouts, draw_queued, style, child_margins>>
  /\ UNCHANGED <<calls, flips, starts, overlapped, at_start, writes, sym>>

\* gtk_container_remove, also run when the child is destroyed: the widget does
\* not override ContainerImpl::remove, so gtk::Bin's remove is all that runs
Remove(widget) ==
  /\ widget = bin_child
  /\ bin_child' = ParentRemove(bin_child, widget)
  /\ diag' = <<>>
  /\ canvas' = NoCanvas
  /\ outdated' = FALSE
  /\ UNCHANGED <<eased, unpainted>>
  /\ UNCHANGED <<widget_vars, timeouts, draw_queued, style, child_margins>>
  /\ UNCHANGED <<calls, flips, starts, overlapped, at_start, writes, sym>>

(***************************************************************************)
(* WidgetImpl::draw                                                        *)
(***************************************************************************)
\* the values state.margin and state.radius can hold
MarginValues == {Zero} \cup {EasingAt[p, Zero, m] : p \in ProgValues, m \in MaxMarginValues}
RadiusValues == {Zero} \cup {EasingAt[p, Zero, r] : p \in ProgValues, r \in MaxRadiusValues}

\* `win.width() as f64`, `win.height() as f64`
WidthAt == [v \in Viewports |-> FInt(v[1])]
HeightAt == [v \in Viewports |-> FInt(v[2])]

\* the arithmetic of the four arcs, tabulated like the closure's
\* `margin + radius`
NearAt == [margin \in MarginValues, radius \in RadiusValues |-> FAdd(margin, radius)]
\* `width - radius - margin`
FarXAt ==
  [v \in Viewports, radius \in RadiusValues, margin \in MarginValues
     |-> FSub(FSub(WidthAt[v], radius), margin)]
\* `height - radius`
FarYAt == [v \in Viewports, radius \in RadiusValues |-> FSub(HeightAt[v], radius)]
\* `margin as i32`
AsI32At == [margin \in MarginValues |-> FToI32(margin)]

Arc(xc, yc, radius, angle1, angle2) ==
  [op |-> "arc", xc |-> xc, yc |-> yc, radius |-> radius,
   degrees1 |-> angle1, degrees2 |-> angle2]

\* the cairo calls from set_source_rgba to close_path
Corners(color, radius, near, far_x, far_y) ==
  << [op |-> "set_source_rgba", color |-> color],
     [op |-> "new_sub_path"],
     Arc(near, near, radius, 180, 270),
     Arc(far_x, near, radius, 270, 0),
     Arc(far_x, far_y, radius, 0, 90),
     Arc(near, far_y, radius, 90, 180),
     [op |-> "close_path"] >>

Path(st, viewport) ==
  Corners(st.color, st.radius, NearAt[st.margin, st.radius],
          FarXAt[viewport, st.radius, st.margin], FarYAt[viewport, st.radius])

\* the insets given to the child
PaddingStart(st) == AsI32At[st.margin] + style.left
PaddingTop(st) == AsI32At[st.margin] + style.top

\* a draw closure with `let _ = cr.save()` etc. in place of `cr.save()?`: it
\* goes on after a call that failed
MutDrawnIgnoresErrors(st, child, viewport, failing) ==
  <<[op |-> "save"]>> \o Path(st, viewport) \o <<[op |-> "fill"], [op |-> "restore"]>> \o
  (IF child = None THEN <<>>
   ELSE << [op |-> "save"],
           [op |-> "set_margin_top", child |-> child, margin |-> PaddingTop(st)],
           [op |-> "set_margin_start", child |-> child, margin |-> PaddingStart(st)],
           [op |-> "set_margin_end", child |-> child, margin |-> PaddingStart(st)],
           [op |-> "propagate_draw", child |-> child],
           [op |-> "reset_clip"],
           [op |-> "restore"] >>)

\* the calls draw makes on the cairo context and on the child when the
\* context fails at its failing-th fallible call (0: never): a call that
\* fails ends the closure, so nothing after it is made
Drawn(st, child, viewport, failing) ==
  IF failing = 1 THEN <<>>
  ELSE <<[op |-> "save"]>> \o Path(st, viewport) \o
  (IF failing = 2 THEN <<>>
   ELSE <<[op |-> "fill"]>> \o
  (IF failing = 3 THEN <<>>
   ELSE <<[op |-> "restore"]>> \o
  (IF child = None \/ failing = 4 THEN <<>>
   ELSE << [op |-> "save"],
           [op |-> "set_margin_top", child |-> child, margin |-> PaddingTop(st)],
           [op |-> "set_margin_start", child |-> child, margin |-> PaddingStart(st)],
           [op |-> "set_margin_end", child |-> child, margin |-> PaddingStart(st)],
           [op |-> "propagate_draw", child |-> child],
           [op |-> "reset_clip"] >> \o
  (IF failing = 5 THEN <<>> ELSE <<[op |-> "restore"]>>))))

\* the child's margins after the set_margin_* calls among `made`
RECURSIVE MarginsAfter(_, _)
MarginsAfter(margins, made) ==
  IF made = <<>> THEN margins
  ELSE LET c == Head(made)
           m == IF c.op = "set_margin_top" THEN [margins EXCEPT ![c.child].top = c.margin]
                ELSE IF c.op = "set_margin_start" THEN [margins EXCEPT ![c.child].start = c.margin]
                ELSE IF c.op = "set_margin_end" THEN [margins EXCEPT ![c.child].end = c.margin]
                ELSE margins
       IN  MarginsAfter(m, Tail(made))

\* draw with `self.content.take()` in place of `&*self.content.borrow()`
MutDrawTakesChild(viewport, failing) ==
  /\ failing > 3 => content # None
  /\ canvas' = [painted |-> TRUE, viewport |-> viewport, failing |-> failing,
                made |-> Drawn(state, content, viewport, failing),
                again |-> canvas.painted /\ canvas.viewport = viewport
                            /\ canvas.failing = failing]
  /\ child_margins' = MarginsAfter(child_margins, canvas'.made)
  /\ content' = None
  /\ diag' = IF failing # 0 THEN <<"cairo">> ELSE <<>>
  /\ draw_queued' = FALSE
  /\ outdated' = FALSE
  /\ eased' = eased
  /\ unpainted' = FALSE
  /\ UNCHANGED <<floating, max_margin, max_radius, floating_opacity, state>>
  /\ UNCHANGED <<timeouts, style, bin_child>>
  /\ UNCHANGED <<calls, flips, starts, overlapped, at_start, writes, sym>>

\* WidgetImpl::draw on a window of the given size, with a cairo context that
\* fails at its failing-th fallible call.  canvas.again: the call before was
\* a draw too, on the same window and with the same context behaviour
Draw(viewport, failing) ==
  /\ failing > 3 => content # None
  /\ canvas' = [painted |-> TRUE, viewport |-> viewport, failing |-> failing,
                made |-> Drawn(state, content, viewport, failing),
                again |-> canvas.painted /\ canvas.viewport = viewport
                            /\ canvas.failing = failing]
  /\ child_margins' = MarginsAfter(child_margins, canvas'.made)
  /\ diag' = IF failing # 0 THEN <<"cairo">> ELSE <<>>
  /\ draw_queued' = FALSE
  /\ outdated' = FALSE
  /\ eased' = eased
  /\ unpainted' = FALSE
  /\ UNCHANGED <<widget_vars, timeouts, style, bin_child>>
  /\ UNCHANGED <<calls, flips, starts, overlapped, at_start, writes, sym>>

(***************************************************************************)
(* Specifications                                                          *)
(***************************************************************************)
\* the whole widget
Next ==
  \/ \E value \in BOOLEAN : SetFloating(value)
  \/ \E i \in 1..MaxCalls : Tick(i)
  \/ SetMaxMargin
  \/ SetMaxRadius
  \/ SetFloatingOpacity
  \/ \E s \in Styles : SetStyle(s)
  \/ \E widget \in Widgets : Add(widget)
  \/ \E widget \in Widgets : Remove(widget)
  \/ \E viewport \in Viewports, failing \in CairoFailures : Draw(viewport, failing)

Spec == Init /\ [][Next]_vars

\* the transition controller under `floating` writes at any time
NextAnim ==
  \/ \E value \in BOOLEAN : SetFloating(value)
  \/ \E i \in 1..MaxCalls : Tick(i)

SpecAnim == Init /\ [][NextAnim]_vars

\* the transition controller when each transition runs to completion before
\* the next `floating` write, with property writes and style changes
NextSettled ==
  \/ \E value \in BOOLEAN : SetFloatingAtRest(value)
  \/ Tick(1)
  \/ SetMaxMargin
  \/ SetMaxRadius
  \/ SetFloatingOpacity
  \/ \E s \in Styles : SetStyle(s)

SpecSettled == Init /\ [][NextSettled]_vars

\* the child slot and draw, the widget at rest
NextChild ==
  \/ \E s \in Styles : SetStyle(s)
  \/ \E widget \in Widgets : Add(widget)
  \/ \E widget \in Widgets : Remove(widget)
  \/ \E viewport \in Viewports, failing \in CairoFailures : Draw(viewport, failing)

SpecChild == Init /\ [][NextChild]_vars

\* draw during transitions, with one child widget
NextPaint ==
  \/ \E value \in BOOLEAN : SetFloatingAtRest(value)
  \/ Tick(1)
  \/ Add("A")
  \/ Remove("A")
  \/ \E viewport \in Viewports, failing \in CairoFailures : Draw(viewport, failing)

SpecPaint == Init /\ [][NextPaint]_vars

\* the host serves a pending repaint request: gtk calls draw for a widget
\* that queue_draw marked, here with a window of 40x30 and a cairo context
\* that works or fails at once
Repaint ==
  /\ draw_queued
  /\ \E failing \in {0, 1} : Draw(<<40, 30>>, failing)

\* transitions and paints: glib runs every registered timeout source again
\* and again, and gtk paints a widget for which a draw is queued
NextRepaint ==
  \/ \E value \in BOOLEAN : SetFloating(value)
  \/ \E i \in 1..MaxCalls : Tick(i)
  \/ Repaint

SpecRepaint ==
  /\ Init
  /\ [][NextRepaint]_vars
  /\ WF_vars(\E i \in 1..MaxCalls : Tick(i))
  /\ WF_vars(Repaint)

(***************************************************************************)
(* The closure `easing` on its own: a call with arguments drawn from the   *)
(* f64 values below, then its return.                                      *)
(***************************************************************************)
\* the f64 nearest to 0, 0.1, ..., 1
ProgressLiterals == {FRatio(k, 10) : k \in 0..10}

\* values `min` takes: 0f64 for margin and radius, a style alpha for alpha
EasingMins == {Zero} \cup AlphaValues

\* values `max` takes: what max-margin, max-radius and floating-opacity
\* can hold, among them a floating-opacity of 0.3
EasingMaxs ==
  MaxMarginValues \cup MaxRadiusValues \cup FloatingOpacityValues \cup {FRatio(3, 10)}

\* a call of `easing` that has not returned yet
EasingCalls ==
  [called : {TRUE}, returned : {FALSE}, progress : ProgressLiterals,
   min : EasingMins, max : EasingMaxs]

InitEasing == Default /\ eased \in EasingCalls

\* `return progress * progress * (max - min) + min`
EasingReturns ==
  /\ eased.called /\ ~eased.returned
  /\ eased' = [called |-> TRUE, returned |-> TRUE, progress |-> eased.progress,
               min |-> eased.min, max |-> eased.max,
               value |-> Easing(eased.progress, eased.min, eased.max)]
  /\ UNCHANGED <<widget_vars, host_vars>>
  /\ UNCHANGED <<diag, canvas, calls, flips, starts, overlapped, at_start, writes, sym,
                 outdated, unpainted>>

NextEasing == EasingReturns

SpecEasing == InitEasing /\ [][NextEasing]_vars

(***************************************************************************)
(* The transition controller                                               *)
(***************************************************************************)
\* VisualState as the widget shows it at rest for a flag, under the given
\* properties and base colour
AtRestFor(flag, margin, radius, opacity, base) ==
  IF flag
  THEN state.margin = margin /\ state.radius = radius /\ state.color.alpha = opacity
  ELSE state.margin = Zero /\ state.radius = Zero /\ state.color.alpha = base.alpha

\* C1: a write of `floating` with the value the flag already has is a no-op:
\* it starts no stepper, requests no redraw and leaves the flag, the
\* properties and VisualState as they are; hence the number of steppers
\* started always equals the number of writes whose value differed.
C1_SameValueWriteIsNoOp ==
  /\ [](starts = flips)
  /\ [][\A value \in BOOLEAN :
          (SetFloating(value) /\ value = floating)
            => UNCHANGED <<widget_vars, timeouts, draw_queued, starts>>]_vars

\* a same-value write has happened among three writes, two of which differed
C1_Witness == calls = 3 /\ flips = 2 /\ starts = 2 /\ Len(timeouts) = 2

\* C2: the last run of the stepper of the latest transition (the run at which
\* progress >= 1) leaves margin, radius and alpha at max_margin, max_radius
\* and floating_opacity as captured when floating, and at 0, 0 and the
\* captured base alpha when docking.
C2_CompletionReachesTarget ==
  [][\A i \in 1..MaxCalls :
       (Tick(i) /\ Len(timeouts') < Len(timeouts) /\ timeouts[i].id = starts)
         => LET t == timeouts[i] IN
            IF t.value
            THEN /\ state'.margin = t.max_margin
                 /\ state'.radius = t.max_radius
                 /\ state'.color.alpha = t.floating_opacity
            ELSE /\ state'.margin = Zero
                 /\ state'.radius = Zero
                 /\ state'.color.alpha = t.bg_color.alpha]_vars

\* C3: whenever no stepper runs, VisualState is the resting one of the flag
\* under the properties and style as they are now.
C3_RestMatchesFlag ==
  timeouts = <<>> => AtRestFor(floating, max_margin, max_radius, floating_opacity, BgColor)

\* C4: after a `floating` write made while a stepper ran, the run that stops
\* the last stepper is a run of the newest stepper, and it leaves VisualState
\* at the resting values of the flag.
C4_OverlapEndsAtTarget ==
  [][\A i \in 1..MaxCalls :
       (Tick(i) /\ overlapped /\ timeouts' = <<>>)
         => /\ timeouts[i].id = starts
            /\ AtRestFor(floating, max_margin, max_radius, floating_opacity, BgColor)']_vars

\* C5: at most one stepper is registered at any time.
C5_AtMostOneStepper == Len(timeouts) <= 1

C7_SingleChild ==
  [][\A widget \in Widgets :
       Add(widget) => /\ content' = widget
                      /\ bin_child' = widget
                      /\ content # None => diag' = <<"multiple children">>
                      /\ content = None => diag' = <<>>]_vars

\* B has been added while the slot held A
C7_Witness ==
  /\ content = "B" /\ bin_child = "B" /\ diag = <<"multiple children">>
  /\ canvas = NoCanvas /\ writes = 0

\* C8: removing the held child leaves the slot empty.
C8_RemoveClearsSlot == [][\A widget \in Widgets : Remove(widget) => content' = None]_vars

\* C9: a step that draws (canvas records the calls of the latest call that
\* was a draw) changes none of the flag, the properties, VisualState and the
\* slot, and starts no stepper; when the step before it was a draw too, on
\* the same window and with the same cairo behaviour, it makes the same calls
\* and leaves the child's margins as the first draw left them.
C9_PaintPurity ==
  [][canvas'.painted
       => /\ UNCHANGED <<widget_vars, timeouts, starts>>
          /\ canvas'.again => /\ canvas'.made = canvas.made
                              /\ child_margins' = child_margins]_vars

\* a child has been drawn twice in a row in the middle of a transition
C9_Witness ==
  /\ canvas.painted /\ canvas.again /\ canvas.failing = 0
  /\ content # None /\ bin_child = content
  /\ timeouts # <<>> /\ state.margin # Zero

\* C10: a write of max-margin, max-radius or floating-opacity starts no
\* stepper, requests no redraw and leaves the flag and VisualState alone; and
\* every run of the closure of the latest transition writes the easing of
\* the properties as they were when the transition started.
C10_WritesAffectFutureOnly ==
  /\ [][(SetMaxMargin \/ SetMaxRadius \/ SetFloatingOpacity)
          => UNCHANGED <<floating, state, timeouts, draw_queued, starts>>]_vars
  /\ [][\A i \in 1..MaxCalls :
          (Tick(i) /\ timeouts[i].id = starts)
            => LET prog == ProgAt[floating, ProgressAt[timeouts[i].progress]] IN
               /\ state'.margin = EasingAt[prog, Zero, at_start.max_margin]
               /\ state'.radius = EasingAt[prog, Zero, at_start.max_radius]
               /\ state'.color.alpha =
                    EasingAt[prog, at_start.bg_color.alpha, at_start.floating_opacity]]_vars

\* a closure has just run after a property was written during its transition
C10_Witness == outdated /\ writes > 0 /\ timeouts # <<>>

\* the calls made on the child among `made`
ChildCalls(made) ==
  SelectSeq(made, LAMBDA c : c.op \in {"set_margin_top", "set_margin_start",
                                        "set_margin_end", "propagate_draw"})

\* C11: a draw whose cairo context fails makes a proper prefix of the calls
\* of a draw that succeeds and nothing after it, reports the error through
\* print_error, and changes none of the flag, the properties, VisualState
\* and the slot; when the failure comes before the child block, no call is
\* made on the child and its margins stay; and a draw whose context does not
\* fail, whatever failed before, makes the whole sequence and reports
\* nothing.
C11_DrawFailureIsLocal ==
  [][canvas'.painted
       => LET full == Drawn(state, content, canvas'.viewport, 0) IN
          /\ UNCHANGED <<widget_vars, timeouts, starts>>
          /\ canvas'.failing # 0
               => /\ Len(canvas'.made) < Len(full)
                  /\ canvas'.made = SubSeq(full, 1, Len(canvas'.made))
                  /\ diag' = <<"cairo">>
          /\ (canvas'.failing # 0 /\ canvas'.failing <= 4)
               => /\ ChildCalls(canvas'.made) = <<>>
                  /\ child_margins' = child_margins
          /\ canvas'.failing = 0
               => /\ canvas'.made = full
                  /\ Len(full) >= 9
                  /\ full[Len(full)] = [op |-> "restore"]
                  /\ diag' = <<>>]_vars

\* a draw has failed at fill in the middle of a transition, a child in the
\* slot: it stopped after close_path
C11_Witness ==
  /\ canvas.painted /\ canvas.failing = 2 /\ diag = <<"cairo">>
  /\ content # None /\ bin_child = content
  /\ Len(canvas.made) = 8 /\ canvas.made[8] = [op |-> "close_path"]
  /\ timeouts # <<>> /\ state.margin # Zero

\* v lies between a and b, ends included
FBetween(v, a, b) == (FLe(a, v) /\ FLe(v, b)) \/ (FLe(b, v) /\ FLe(v, a))

C13_TenTicksThenStop ==
  [][/\ \A i \in DOMAIN timeouts : RunsAt[timeouts[i].progress] < 10
     /\ \A i \in DOMAIN timeouts :
          (Tick(i) /\ Len(timeouts') < Len(timeouts))
            => RunsAt[timeouts[i].progress] + 1 = 10]_vars

\* C14: in every reachable state 0 <= margin <= max_margin and
\* 0 <= radius <= max_radius, for the values the two properties hold now
C14_VisualDomains ==
  /\ FLe(Zero, state.margin) /\ FLe(state.margin, max_margin)
  /\ FLe(Zero, state.radius) /\ FLe(state.radius, max_radius)

\* the effective progress the k-th tick of a transition to `value` is to use
EffectiveProgress(value, k) ==
  IF value THEN FRatio(k, 10) ELSE FSub(One, FRatio(k, 10))

\* C15: the k-th tick of a transition is one of ten, and it writes
\* margin = easing(e, 0, M), radius = easing(e, 0, R), alpha = easing(e, a, O)
\* for the captured M, R, O, a and e = k/10 (floating) or 1 - k/10 (docking);
\* with M = 0 and R = 0 margin and radius are 0 after every tick
C15_TickWritesCurvePoint ==
  [][\A i \in DOMAIN timeouts :
       Tick(i)
         => LET t == timeouts[i]
                k == RunsAt[t.progress] + 1
            IN  /\ k <= 10
                /\ state'.margin = Easing(EffectiveProgress(t.value, k), Zero, t.max_margin)
                /\ state'.radius = Easing(EffectiveProgress(t.value, k), Zero, t.max_radius)
                /\ state'.color.alpha =
                     Easing(EffectiveProgress(t.value, k), t.bg_color.alpha,
                            t.floating_opacity)
                /\ (t.max_margin = Zero /\ t.max_radius = Zero)
                     => (state'.margin = Zero /\ state'.radius = Zero)]_vars

\* an arc call of radius r centred at (x, y)
ArcAt(c, x, y, r) == c.op = "arc" /\ c.xc = x /\ c.yc = y /\ c.radius = r

\* C16: a paint that went through made, between new_sub_path and close_path,
\* four arcs of radius r centred at (m+r, m+r), (w-m-r, m+r), (w-m-r, h-m-r)
\* and (m+r, h-m-r), in this order and through the angles of the top-left,
\* top-right, bottom-right and bottom-left corner, and filled the path once
\* with the current colour
C16_RoundedRectInsetAllSides ==
  (canvas.painted /\ canvas.failing = 0)
    => LET m == state.margin
           r == state.radius
           near == FAdd(m, r)
           far_x == FSub(FSub(WidthAt[canvas.viewport], m), r)
           far_x2 == FSub(FSub(WidthAt[canvas.viewport], r), m)
           far_y == FSub(FSub(HeightAt[canvas.viewport], m), r)
           far_y2 == FSub(FSub(HeightAt[canvas.viewport], r), m)
           made == canvas.made
       IN  /\ made[2] = [op |-> "set_source_rgba", color |-> state.color]
           /\ made[3] = [op |-> "new_sub_path"]
           /\ ArcAt(made[4], near, near, r)
           /\ made[4].degrees1 = 180 /\ made[4].degrees2 = 270
           /\ ArcAt(made[5], far_x, near, r) \/ ArcAt(made[5], far_x2, near, r)
           /\ made[5].degrees1 = 270 /\ made[5].degrees2 = 0
           /\ \/ ArcAt(made[6], far_x, far_y, r) \/ ArcAt(made[6], far_x2, far_y2, r)
              \/ ArcAt(made[6], far_x, far_y2, r) \/ ArcAt(made[6], far_x2, far_y, r)
           /\ made[6].degrees1 = 0 /\ made[6].degrees2 = 90
           /\ ArcAt(made[7], near, far_y, r) \/ ArcAt(made[7], near, far_y2, r)
           /\ made[7].degrees1 = 90 /\ made[7].degrees2 = 180
           /\ made[8] = [op |-> "close_path"]
           /\ Len(SelectSeq(made, LAMBDA c : c.op = "fill")) = 1
           /\ Len(SelectSeq(made, LAMBDA c : c.op = "arc")) = 4

\* the insets and the painting C17 expects for the child w in a paint that
\* made the calls `made` with margin m
ChildInsetAndPainted(w, m, made) ==
  /\ FInt(child_margins'[w].top) = FAdd(m, FInt(style.top))
  /\ FInt(child_margins'[w].start) = FAdd(m, FInt(style.left))
  /\ FInt(child_margins'[w].end) = FAdd(m, FInt(style.left))
  /\ child_margins'[w].bottom = child_margins[w].bottom
  /\ Len(SelectSeq(made, LAMBDA c : c.op = "propagate_draw")) = 1
  /\ \E i \in 1..Len(made) : \E j \in (i + 1)..Len(made) : \E k \in (j + 1)..Len(made) :
       /\ made[i] = [op |-> "fill"]
       /\ made[j] = [op |-> "propagate_draw", child |-> w]
       /\ made[k] = [op |-> "reset_clip"]

\* C17: a paint that goes through with a child in the widget sets the child's
\* top margin to margin + padding.top and its start and end margins to
\* margin + padding.left, leaves its bottom margin, paints it once after the
\* fill and resets the clip afterwards; a paint of a widget without a child
\* sets no margin and paints no child
C17_ChildInsetThenPainted ==
  [][(canvas'.painted /\ canvas'.failing = 0)
       => IF bin_child # None
          THEN ChildInsetAndPainted(bin_child, state.margin, canvas'.made)
          ELSE ChildCalls(canvas'.made) = <<>> /\ child_margins' = child_margins]_vars

\* C18: a tick that writes `state` queues a draw in the same step; whenever
\* `state` was written after draw last read it, a draw is queued or a stepper
\* is still scheduled; and once a transition has started, the steppers end
\* and a draw reads the state they left
C18_NoVisualChangeLost ==
  /\ [][\A i \in DOMAIN timeouts : Tick(i) => draw_queued']_vars
  /\ [](unpainted => (draw_queued \/ timeouts # <<>>))
  /\ (timeouts # <<>>) ~> (timeouts = <<>> /\ ~unpainted)

C18_Witness ==
  /\ timeouts = <<>> /\ starts > 0 /\ ~unpainted /\ ~draw_queued
  /\ canvas.painted /\ state.margin # Zero

\* C19: a write of `floating` that starts a transition leaves margin, radius
\* and the alpha of the colour as they were, and each tick of a transition to
\* docked that runs alone moves alpha no further from the base alpha than it
\* was
C19_StartKeepsAnimatedParameters ==
  [][/\ starts' = starts + 1
          => /\ state'.margin = state.margin
             /\ state'.radius = state.radius
             /\ state'.color.alpha = state.color.alpha
     /\ (Tick(1) /\ Len(timeouts) = 1 /\ ~timeouts[1].value /\ ~overlapped)
          => FBetween(state'.color.alpha, state.color.alpha,
                      timeouts[1].bg_color.alpha)]_vars
=============================================================================
